---- MODULE Spec2Model ----
(***************************************************************************)
(* The AP2 mandate lifecycle and its RFC 7807 error taxonomy.              *)
(*                                                                         *)
(* The scripts of the repository (manual_test_script.py,                   *)
(* test_mandate_functionality.py, verify_implementation.py,                *)
(* test_full_system.py, test_agent_integration.py) create mandates, read   *)
(* and assign their status field, decide executability with the            *)
(* expression  mandate.status == MandateStatus.ACTIVE  and build errors    *)
(* with the helpers of ap2.types.error_schema.  Those parts are modelled   *)
(* from the scripts.  The classes of ap2.types.mandate, the functions of   *)
(* ap2.types.error_schema and the guarded revoke / execute operations are  *)
(* not among the scripts; they are modelled from the written               *)
(* specification (sections 3, 4 and 5).                                    *)
(***************************************************************************)
EXTENDS Integers, Sequences, FiniteSets, TLC

VARIABLES
    clock,      \* the reading of datetime.now(timezone.utc)
    mandates,   \* the mandate objects that exist, by identity: id |-> fields
    last,       \* the single-threaded program: its last operation, with what it read and returned
    callers,    \* the concurrent program: each caller's position in its revoke or execute call
    revoked,    \* ids that were revoked, by revoke or as the scripts do it, and not assigned since
    harness     \* the test runner that starts the agent processes, and those processes

vars == <<clock, mandates, last, callers, revoked, harness>>

---------------------------------------------------------------------------
(* Bounds of the model. *)

MaxMandates == 1    \* mandate objects created in one run
MaxClock == 2       \* readings the clock takes after the first one
NCallers == 3       \* callers that race on one mandate
MaxLive == 2        \* mandates alive together where references are compared

Ids == 1..MaxMandates
Callers == 1..NCallers

---------------------------------------------------------------------------
(* MandateStatus: a string-valued enumeration, each member equal to its    *)
(* own name.                                                               *)

(* An enumeration with a seventh member. *)
MandateStatus_WithPending ==
    {"DRAFT", "ACTIVE", "REVOKED", "EXPIRED", "COMPLETED", "FAILED", "PENDING"}

MandateStatus == {"DRAFT", "ACTIVE", "REVOKED", "EXPIRED", "COMPLETED", "FAILED"}

(* The mandate classes: BaseMandate and the three that inherit from it. *)
Variants == {"BaseMandate", "IntentMandate", "CartMandate", "PaymentMandate"}

(* An optional value: None is the empty sequence, a present value x is <<x>>. *)
None == <<>>
Some(x) == <<x>>

---------------------------------------------------------------------------
(* The error taxonomy (ap2.types.error_schema).                            *)

(* The same namespace reached over plain http. *)
ErrorBase_Http == "http://ap2-protocol.org/errors/"

ErrorBase == "https://ap2-protocol.org/errors/"

ErrorKinds ==
    { "MANDATE_NOT_FOUND", "MANDATE_ALREADY_REVOKED", "MANDATE_EXPIRED",
      "MANDATE_INVALID_STATUS", "MANDATE_REVOCATION_FAILED",
      "PAYMENT_METHOD_NOT_SUPPORTED", "PAYMENT_DECLINED",
      "PAYMENT_AMOUNT_EXCEEDED", "PAYMENT_INSUFFICIENT_FUNDS",
      "PAYMENT_PROCESSOR_ERROR",
      "UNAUTHORIZED_AGENT", "INVALID_SIGNATURE", "MISSING_AUTHORIZATION",
      "INVALID_MANDATE_FORMAT", "MISSING_REQUIRED_FIELD",
      "INVALID_PAYMENT_REQUEST",
      "INTERNAL_SERVER_ERROR", "SERVICE_UNAVAILABLE", "TIMEOUT" }

(* The URI suffix of each kind: its name in lower case, hyphenated. *)
KindSlug(kind) ==
    CASE kind = "MANDATE_NOT_FOUND" -> "mandate-not-found"
      [] kind = "MANDATE_ALREADY_REVOKED" -> "mandate-already-revoked"
      [] kind = "MANDATE_EXPIRED" -> "mandate-expired"
      [] kind = "MANDATE_INVALID_STATUS" -> "mandate-invalid-status"
      [] kind = "MANDATE_REVOCATION_FAILED" -> "mandate-revocation-failed"
      [] kind = "PAYMENT_METHOD_NOT_SUPPORTED" -> "payment-method-not-supported"
      [] kind = "PAYMENT_DECLINED" -> "payment-declined"
      [] kind = "PAYMENT_AMOUNT_EXCEEDED" -> "payment-amount-exceeded"
      [] kind = "PAYMENT_INSUFFICIENT_FUNDS" -> "payment-insufficient-funds"
      [] kind = "PAYMENT_PROCESSOR_ERROR" -> "payment-processor-error"
      [] kind = "UNAUTHORIZED_AGENT" -> "unauthorized-agent"
      [] kind = "INVALID_SIGNATURE" -> "invalid-signature"
      [] kind = "MISSING_AUTHORIZATION" -> "missing-authorization"
      [] kind = "INVALID_MANDATE_FORMAT" -> "invalid-mandate-format"
      [] kind = "MISSING_REQUIRED_FIELD" -> "missing-required-field"
      [] kind = "INVALID_PAYMENT_REQUEST" -> "invalid-payment-request"
      [] kind = "INTERNAL_SERVER_ERROR" -> "internal-server-error"
      [] kind = "SERVICE_UNAVAILABLE" -> "service-unavailable"
      [] kind = "TIMEOUT" -> "timeout"

(* ErrorType.<kind>.value *)
ErrorType(kind) == ErrorBase \o KindSlug(kind)

(* create_error(kind, title, status, detail, mandate_reference=None) *)
(* A constructor that forgets the optional reference. *)
create_error_DropsReference(kind, title, status, detail, mandate_reference) ==
    [ type |-> ErrorType(kind),
      title |-> title,
      status |-> status,
      detail |-> detail,
      mandate_reference |-> None ]

create_error(kind, title, status, detail, mandate_reference) ==
    [ type |-> ErrorType(kind),
      title |-> title,
      status |-> status,
      detail |-> detail,
      mandate_reference |-> mandate_reference ]

(* A missing mandate reported as gone, without its reference. *)
mandate_not_found_error_Gone(ref) ==
    create_error("MANDATE_NOT_FOUND", "Mandate Not Found", 410,
                 "Mandate " \o ref \o " was not found.", None)

mandate_not_found_error(ref) ==
    create_error("MANDATE_NOT_FOUND", "Mandate Not Found", 404,
                 "Mandate " \o ref \o " was not found.", Some(ref))

mandate_already_revoked_error(ref) ==
    create_error("MANDATE_ALREADY_REVOKED", "Mandate Already Revoked", 409,
                 "Mandate " \o ref \o " has already been revoked and cannot be used.",
                 Some(ref))

(* An expiry reported as an untyped problem. *)
mandate_expired_error_Blank(ref) ==
    [ type |-> "about:blank",
      title |-> "Mandate Expired",
      status |-> 410,
      detail |-> "Mandate " \o ref \o " has expired.",
      mandate_reference |-> Some(ref) ]

mandate_expired_error(ref) ==
    create_error("MANDATE_EXPIRED", "Mandate Expired", 410,
                 "Mandate " \o ref \o " has expired and cannot be used.", Some(ref))

(* The error of a lifecycle operation refused for a status that has no     *)
(* helper of its own; the status code is a 4xx lifecycle violation.        *)
mandate_invalid_status_error(ref, status) ==
    create_error("MANDATE_INVALID_STATUS", "Mandate Invalid Status", 400,
                 "Mandate " \o ref \o " is in status " \o status \o ".", Some(ref))

payment_declined_error(detail) ==
    create_error("PAYMENT_DECLINED", "Payment Declined", 402, detail, None)

unauthorized_agent_error(agent_id) ==
    create_error("UNAUTHORIZED_AGENT", "Unauthorized Agent", 401,
                 "Agent " \o agent_id \o " is not authorized to perform this action.",
                 None)

(* A helper that reports a server failure as 503 and keeps its argument   *)
(* as a reference.                                                         *)
internal_server_error_Unavailable(detail) ==
    create_error("INTERNAL_SERVER_ERROR", "Internal Server Error", 503, detail,
                 Some(detail))

internal_server_error(detail) ==
    create_error("INTERNAL_SERVER_ERROR", "Internal Server Error", 500, detail, None)

(* The six helper constructors, by name. *)
HelperNames ==
    { "mandate_not_found_error", "mandate_already_revoked_error",
      "mandate_expired_error", "payment_declined_error",
      "unauthorized_agent_error", "internal_server_error" }

HelperError(name, arg) ==
    CASE name = "mandate_not_found_error" -> mandate_not_found_error(arg)
      [] name = "mandate_already_revoked_error" -> mandate_already_revoked_error(arg)
      [] name = "mandate_expired_error" -> mandate_expired_error(arg)
      [] name = "payment_declined_error" -> payment_declined_error(arg)
      [] name = "unauthorized_agent_error" -> unauthorized_agent_error(arg)
      [] name = "internal_server_error" -> internal_server_error(arg)

---------------------------------------------------------------------------
(* Mandates.                                                               *)

(* A reference written out in the call, whatever the mandate. *)
MandateRef_Fixed(id) == "test-mandate-123"

(* The reference by which an error names a mandate: str(id(mandate)). *)
MandateRef(id) == ToString(id)

(* A default status of DRAFT: a mandate that is not yet activated. *)
NewMandate_Draft(variant, now) ==
    [ status |-> "DRAFT",
      created_at |-> now,
      updated_at |-> now ]

(* Each timestamp from a reading of its own, the second one later. *)
NewMandate_TwoReadings(variant, now) ==
    [ status |-> "ACTIVE",
      created_at |-> now,
      updated_at |-> now + 1 ]

(* BaseMandate() and its subclasses: status defaults to ACTIVE, both      *)
(* timestamps to now().  The lifecycle fields are the same for every       *)
(* variant; the payload of a variant takes no part in the lifecycle.       *)
NewMandate(variant, now) ==
    [ status |-> "ACTIVE",
      created_at |-> now,
      updated_at |-> now ]

(* Executable unless revoked. *)
IsExecutable_NotRevoked(status) == status # "REVOKED"

(* is_executable = mandate.status == MandateStatus.ACTIVE *)
IsExecutable(status) == status = "ACTIVE"

(* An assignment that a terminal status refuses. *)
AssignStatus_Guarded(m, state) ==
    IF m.status \in {"REVOKED", "EXPIRED", "COMPLETED", "FAILED"}
    THEN m
    ELSE [m EXCEPT !.status = state]

(* mandate.status = state *)
AssignStatus(m, state) == [m EXCEPT !.status = state]

(* A revocation that refreshes updated_at and forgets the status. *)
RevokedMandate_KeepStatus(m, now) == [m EXCEPT !.updated_at = now]

(* A revocation stamped with a clock that runs behind the one that       *)
(* stamped the creation.                                                   *)
RevokedMandate_ClockBehind(m, now) ==
    [m EXCEPT !.status = "REVOKED", !.updated_at = now - 1]

(* A revocation that stamps both timestamps. *)
RevokedMandate_Restamped(m, now) ==
    [m EXCEPT !.status = "REVOKED", !.created_at = now, !.updated_at = now]

(* mandate.status = MandateStatus.REVOKED                                  *)
(* mandate.updated_at = datetime.now(timezone.utc).isoformat()             *)
RevokedMandate(m, now) == [m EXCEPT !.status = "REVOKED", !.updated_at = now]

(* What an operation returned: its outcome, the error of a failed call,   *)
(* and the status a statement read back.                                   *)
NoResult == [outcome |-> "none", error |-> None, value |-> "none"]
Success == [outcome |-> "ok", error |-> None, value |-> "none"]
Failure(err) == [outcome |-> "error", error |-> Some(err), value |-> "none"]
Answer(b) == [outcome |-> IF b THEN "true" ELSE "false", error |-> None, value |-> "none"]
ReadBack(status) == [outcome |-> "ok", error |-> None, value |-> status]

(* revoke(mandate), decided on the status the call read. *)
RevokeResult(seen, ref) ==
    IF IsExecutable(seen) THEN Success
    ELSE IF seen = "REVOKED" THEN Failure(mandate_already_revoked_error(ref))
    ELSE Failure(mandate_invalid_status_error(ref, seen))

(* execute(mandate), decided on the status the call read. *)
ExecuteResult(seen, ref) ==
    IF IsExecutable(seen) THEN Success
    ELSE IF seen = "REVOKED" THEN Failure(mandate_already_revoked_error(ref))
    ELSE IF seen = "EXPIRED" THEN Failure(mandate_expired_error(ref))
    ELSE Failure(mandate_invalid_status_error(ref, seen))

---------------------------------------------------------------------------
(* The state after construction: no mandate yet, nothing called.           *)

(* One operation: where it stands, on which mandate, the status it read,   *)
(* its argument, and what it returned.                                     *)
Frame(pc, op, id, seen, arg, result) ==
    [pc |-> pc, op |-> op, id |-> id, seen |-> seen, arg |-> arg, result |-> result]

Idle == Frame("idle", "none", 0, "none", "none", NoResult)

Live == DOMAIN mandates

(* The agents the test runners start, in the order in which they start     *)
(* them, and the tests run_all_tests runs.                                 *)
AgentOrder ==
    << "credentials_provider_agent", "merchant_payment_processor_agent",
       "merchant_agent", "shopping_agent" >>

Agents == 1..Len(AgentOrder)

Tests == << "Agent Health Check", "Mandate Creation & Revocation", "Error Handling" >>

(* test_agent_health: the agents it asks, in the order in which it asks    *)
(* them, and what requests.get can do: answer with a status code or raise  *)
(* a RequestException.                                                     *)
AgentUrls == << "Shopping Agent", "Merchant Agent", "Credentials Provider",
               "Payment Processor" >>

Responded(status) == [raised |-> "none", status |-> status]

Raised(exception) == [raised |-> exception, status |-> 0]

HealthAnswers ==
    { Responded(200), Responded(404), Responded(500),
      Raised("ConnectionError"), Raised("Timeout") }

(* An agent's process: not spawned yet, running or exited, and the signals *)
(* it was sent.                                                            *)
NoProcess == [state |-> "none", terms |-> 0, kills |-> 0]

(* The runner before run_all_tests or run_test is called:                  *)
(* self.processes = [].                                                    *)
NotStarted ==
    [ cls |-> "none", pc |-> "new", i |-> 1, processes |-> << >>,
      k |-> 1, ret |-> "none", cleanups |-> 0,
      t |-> 1, outcomes |-> << >>, passed |-> 0, result |-> "none",
      failed |-> 0, started |-> << >>,
      health |-> [j |-> 1, answers |-> << >>, result |-> "none"],
      proc |-> [a \in Agents |-> NoProcess] ]

Init ==
    /\ clock = 0
    /\ mandates = << >>
    /\ last = Idle
    /\ callers = [c \in Callers |-> Idle]
    /\ revoked = {}
    /\ harness = NotStarted

(* Time passes between two statements. *)
Tick ==
    /\ clock < MaxClock
    /\ clock' = clock + 1
    /\ UNCHANGED <<mandates, last, callers, revoked, harness>>

(* create(variant, payload): a new object, whose identity no live mandate  *)
(* has; the script then reads its status.                                  *)
NewId == Cardinality(Live) + 1

CreateUpTo(limit, variant) ==
    /\ Cardinality(Live) < limit
    /\ mandates' = [id \in Live \cup {NewId} |->
                       IF id = NewId THEN NewMandate(variant, clock) ELSE mandates[id]]
    /\ last' = Frame("done", "create", NewId, "none", variant,
                     ReadBack(mandates'[NewId].status))
    /\ UNCHANGED <<clock, callers, revoked, harness>>

Create(variant) == CreateUpTo(MaxMandates, variant)

(* mandate.status = state; assert mandate.status == state                 *)
(* No transition rule guards the assignment.                               *)
Assign(id, state) ==
    /\ id \in Live
    /\ mandates' = [mandates EXCEPT ![id] = AssignStatus(@, state)]
    /\ last' = Frame("done", "assign", id, mandates[id].status, state,
                     ReadBack(mandates'[id].status))
    /\ revoked' = revoked \ {id}
    /\ UNCHANGED <<clock, callers, harness>>

(* The revocation as the scripts simulate it: the two assignments, with    *)
(* no check of the current status.                                         *)
ScriptRevoke(id) ==
    /\ id \in Live
    /\ mandates' = [mandates EXCEPT ![id] = RevokedMandate(@, clock)]
    /\ last' = Frame("done", "script_revoke", id, mandates[id].status, "REVOKED",
                     ReadBack(mandates'[id].status))
    /\ revoked' = revoked \cup {id}
    /\ UNCHANGED <<clock, callers, harness>>

(* What revoke writes once it has decided `res`. *)
RevokeWrite(id, res) ==
    IF res.outcome = "ok"
    THEN /\ mandates' = [mandates EXCEPT ![id] = RevokedMandate(@, clock)]
         /\ revoked' = revoked \cup {id}
    ELSE UNCHANGED <<mandates, revoked, harness>>

(* The single-threaded program: each lifecycle operation runs from its     *)
(* read of the status to its return with nothing in between.               *)
Revoke(id) ==
    LET seen == mandates[id].status
        res == RevokeResult(seen, MandateRef(id))
    IN  /\ id \in Live
        /\ RevokeWrite(id, res)
        /\ last' = Frame("done", "revoke", id, seen, "none", res)
        /\ UNCHANGED <<clock, callers, harness>>

(* An execution that completes the mandate it accepted. *)
Execute_Completing(id) ==
    LET seen == mandates[id].status
    IN  /\ id \in Live
        /\ mandates' = [mandates EXCEPT ![id] =
                           IF IsExecutable(seen)
                           THEN [@ EXCEPT !.status = "COMPLETED", !.updated_at = clock]
                           ELSE @]
        /\ last' = Frame("done", "execute", id, seen, "none",
                         ExecuteResult(seen, MandateRef(id)))
        /\ UNCHANGED <<clock, callers, revoked, harness>>

Execute(id) ==
    LET seen == mandates[id].status
    IN  /\ id \in Live
        /\ last' = Frame("done", "execute", id, seen, "none",
                         ExecuteResult(seen, MandateRef(id)))
        /\ UNCHANGED <<clock, mandates, callers, revoked, harness>>

(* A check that fails a mandate it finds not executable. *)
CheckExecutable_Failing(id) ==
    LET seen == mandates[id].status
    IN  /\ id \in Live
        /\ mandates' = [mandates EXCEPT ![id] =
                           IF IsExecutable(seen) THEN @
                           ELSE [@ EXCEPT !.status = "FAILED", !.updated_at = clock]]
        /\ last' = Frame("done", "isExecutable", id, seen, "none",
                         Answer(IsExecutable(seen)))
        /\ UNCHANGED <<clock, callers, revoked, harness>>

CheckExecutable(id) ==
    LET seen == mandates[id].status
    IN  /\ id \in Live
        /\ last' = Frame("done", "isExecutable", id, seen, "none",
                         Answer(IsExecutable(seen)))
        /\ UNCHANGED <<clock, mandates, callers, revoked, harness>>

(* lookup(reference): the stored mandate with that reference, or         *)
(* MANDATE_NOT_FOUND.  The references asked for are those the run can give *)
(* a mandate and one that no mandate has.                                  *)
LookupRefs == {MandateRef(id) : id \in Ids} \cup {"nonexistent-mandate"}

Stored(ref) == {id \in Live : MandateRef(id) = ref}

Found(m) == [outcome |-> "ok", error |-> None, value |-> m]

LookupResult(ref) ==
    IF Stored(ref) # {}
    THEN Found(mandates[CHOOSE id \in Stored(ref) : TRUE])
    ELSE Failure(mandate_not_found_error(ref))

Lookup(ref) ==
    /\ last' = Frame("done", "lookup",
                     IF Stored(ref) # {} THEN CHOOSE id \in Stored(ref) : TRUE ELSE 0,
                     "none", ref, LookupResult(ref))
    /\ UNCHANGED <<clock, mandates, callers, revoked, harness>>

Next ==
    \/ Tick
    \/ \E v \in Variants : Create(v)
    \/ \E id \in Ids, s \in MandateStatus : Assign(id, s)
    \/ \E id \in Ids : ScriptRevoke(id)
    \/ \E id \in Ids : Revoke(id)
    \/ \E id \in Ids : Execute(id)
    \/ \E id \in Ids : CheckExecutable(id)
    \/ \E ref \in LookupRefs : Lookup(ref)

Spec == Init /\ [][Next]_vars

---------------------------------------------------------------------------
(* Several mandates alive together: the operations of Spec without the     *)
(* passing of time, on up to MaxLive mandates, so that the references of   *)
(* different mandates meet.                                                *)

LiveIds == 1..MaxLive

NextRefs ==
    \/ \E v \in Variants : CreateUpTo(MaxLive, v)
    \/ \E id \in LiveIds, s \in MandateStatus : Assign(id, s)
    \/ \E id \in LiveIds : ScriptRevoke(id)
    \/ \E id \in LiveIds : Revoke(id)
    \/ \E id \in LiveIds : Execute(id)
    \/ \E ref \in {MandateRef(id) : id \in LiveIds} \cup {"nonexistent-mandate"} :
          Lookup(ref)

SpecRefs == Init /\ [][NextRefs]_vars

---------------------------------------------------------------------------
(* The concurrent program: callers race on revoke and execute.  The read   *)
(* of the status, the check and the update are one critical section keyed  *)
(* by mandate: a call enters only while no other call is inside it for     *)
(* the same mandate.                                                       *)

InSection(id) == \E c \in Callers : callers[c].pc = "in" /\ callers[c].id = id

(* No critical section: every call enters at once. *)
CanEnter_Always(id) == TRUE

CanEnter(id) == ~InSection(id)

(* A caller starts its call: it enters the section and reads the status. *)
Enter(c, op, id) ==
    /\ callers[c].pc = "idle"
    /\ id \in Live
    /\ CanEnter(id)
    /\ callers' = [callers EXCEPT ![c] =
                      Frame("in", op, id, mandates[id].status, "none", NoResult)]
    /\ UNCHANGED <<clock, mandates, last, revoked, harness>>

(* revoke acts on the status it read and leaves the section. *)
FinishRevoke(c) ==
    LET id == callers[c].id
        res == RevokeResult(callers[c].seen, MandateRef(id))
    IN  /\ callers[c].pc = "in"
        /\ callers[c].op = "revoke"
        /\ RevokeWrite(id, res)
        /\ callers' = [callers EXCEPT ![c].pc = "done", ![c].result = res]
        /\ UNCHANGED <<clock, last, harness>>

(* execute acts on the status it read and leaves the section; the payment  *)
(* and the move to COMPLETED or FAILED are the caller's.                   *)
FinishExecute(c) ==
    LET id == callers[c].id
    IN  /\ callers[c].pc = "in"
        /\ callers[c].op = "execute"
        /\ callers' = [callers EXCEPT ![c].pc = "done",
                          ![c].result = ExecuteResult(callers[c].seen, MandateRef(id))]
        /\ UNCHANGED <<clock, mandates, last, revoked, harness>>

NextRace ==
    \/ \E v \in Variants : Create(v)
    \/ \E c \in Callers, id \in Ids : Enter(c, "revoke", id)
    \/ \E c \in Callers, id \in Ids : Enter(c, "execute", id)
    \/ \E c \in Callers : FinishRevoke(c)
    \/ \E c \in Callers : FinishExecute(c)

SpecRace == Init /\ [][NextRace]_vars

---------------------------------------------------------------------------
(* The error schema exercised on its own: errors are built from the        *)
(* catalog, by create_error or by a helper, and the built error is left    *)
(* in `last`.                                                              *)

Titles == {"Test Error", "Payment Declined"}

Statuses == {402, 404}

Details == {"Test error detail", "agent \"bad-agent\" sent C:\\cart"}

References == {None, Some("test-123")}

HelperArgs == {"test-1", "bad-agent", "Test payment error"}

Built(err) == [outcome |-> "ok", error |-> Some(err), value |-> "none"]

CreateError(kind, title, status, detail, mandate_reference) ==
    /\ last' = Frame("done", "create_error", 0, "none",
                     [kind |-> kind, title |-> title, status |-> status,
                      detail |-> detail, mandate_reference |-> mandate_reference],
                     Built(create_error(kind, title, status, detail,
                                        mandate_reference)))
    /\ UNCHANGED <<clock, mandates, callers, revoked, harness>>

Helper(name, arg) ==
    /\ last' = Frame("done", name, 0, "none", arg, Built(HelperError(name, arg)))
    /\ UNCHANGED <<clock, mandates, callers, revoked, harness>>

(* Encoding, as the scripts do it: model_dump renders the error into a    *)
(* mapping that holds every field, an absent reference as None, and        *)
(* json.dumps writes the mapping out with its default separators.  A       *)
(* mapping is a sequence of <<key, value>> pairs in field order; a value   *)
(* is a string, an integer or None.                                        *)

Str(s) == [t |-> "str", s |-> s, n |-> 0]
Num(n) == [t |-> "int", s |-> "", n |-> n]
Null == [t |-> "null", s |-> "", n |-> 0]

model_dump(err) ==
    << <<"type", Str(err.type)>>,
       <<"title", Str(err.title)>>,
       <<"status", Num(err.status)>>,
       <<"detail", Str(err.detail)>>,
       <<"mandate_reference",
         IF err.mandate_reference = None THEN Null
         ELSE Str(err.mandate_reference[1])>> >>

Ch(t, i) == IF i >= 1 /\ i <= Len(t) THEN SubSeq(t, i, i) ELSE ""

Sub(t, i, j) == IF i >= 1 /\ j <= Len(t) THEN SubSeq(t, i, j) ELSE ""

EscapeChar(c) ==
    IF c = "\"" THEN "\\\"" ELSE IF c = "\\" THEN "\\\\" ELSE c

(* The characters i..j of s, each escaped; the range is halved so that the *)
(* evaluation stays shallow.                                               *)
RECURSIVE Escape(_, _, _)
Escape(s, i, j) ==
    IF i > j THEN ""
    ELSE IF i = j THEN EscapeChar(Ch(s, i))
    ELSE LET m == (i + j) \div 2
         IN Escape(s, i, m) \o Escape(s, m + 1, j)

(* A string written between quotes as it stands. *)
JsonString_Raw(s) == "\"" \o s \o "\""

JsonString(s) == "\"" \o Escape(s, 1, Len(s)) \o "\""

JsonValue(v) ==
    CASE v.t = "str" -> JsonString(v.s)
      [] v.t = "int" -> ToString(v.n)
      [] v.t = "null" -> "null"

RECURSIVE JsonMembers(_, _)
JsonMembers(d, i) ==
    IF i > Len(d) THEN ""
    ELSE (IF i > 1 THEN ", " ELSE "")
         \o JsonString(d[i][1]) \o ": " \o JsonValue(d[i][2])
         \o JsonMembers(d, i + 1)

json_dumps(d) == "{" \o JsonMembers(d, 1) \o "}"

Encode(err) == json_dumps(model_dump(err))

(* Decoding: the text is parsed back into a mapping and the mapping is     *)
(* validated into an error.                                                *)

Digits == <<"0", "1", "2", "3", "4", "5", "6", "7", "8", "9">>

IsDigit(c) == \E k \in 1..10 : Digits[k] = c

DigitValue(c) == (CHOOSE k \in 1..10 : Digits[k] = c) - 1

(* Inside a string that starts at i, the character at j is escaped when   *)
(* the backslashes that run up to it are odd in number.                    *)
RunStart(t, i, j) ==
    CHOOSE k \in i..j :
        /\ k = i \/ Ch(t, k - 1) # "\\"
        /\ \A p \in k..(j - 1) : Ch(t, p) = "\\"

Escaped(t, i, j) == (j - RunStart(t, i, j)) % 2 = 1

Closing(t, i) ==
    {j \in i..Len(t) : Ch(t, j) = "\"" /\ ~Escaped(t, i, j)}

RECURSIVE Unescape(_, _, _, _)
Unescape(t, i, lo, hi) ==
    IF lo > hi THEN ""
    ELSE IF lo = hi
    THEN IF Ch(t, lo) = "\\" /\ ~Escaped(t, i, lo) THEN "" ELSE Ch(t, lo)
    ELSE LET m == (lo + hi) \div 2
         IN Unescape(t, i, lo, m) \o Unescape(t, i, m + 1, hi)

(* The string whose first character is at i, up to its closing quote. *)
ScanString(t, i) ==
    IF Closing(t, i) = {} THEN [ok |-> FALSE, val |-> "", next |-> 0]
    ELSE LET close == CHOOSE j \in Closing(t, i) :
                          \A k \in Closing(t, i) : j <= k
         IN [ok |-> TRUE, val |-> Unescape(t, i, i, close - 1),
             next |-> close + 1]

RECURSIVE ScanInt(_, _, _)
ScanInt(t, i, acc) ==
    IF IsDigit(Ch(t, i))
    THEN ScanInt(t, i + 1, acc * 10 + DigitValue(Ch(t, i)))
    ELSE [ok |-> TRUE, val |-> Num(acc), next |-> i]

ParseValue(t, i) ==
    IF Ch(t, i) = "\""
    THEN LET r == ScanString(t, i + 1)
         IN [ok |-> r.ok, val |-> Str(r.val), next |-> r.next]
    ELSE IF Sub(t, i, i + 3) = "null"
    THEN [ok |-> TRUE, val |-> Null, next |-> i + 4]
    ELSE IF IsDigit(Ch(t, i)) THEN ScanInt(t, i, 0)
    ELSE [ok |-> FALSE, val |-> Null, next |-> 0]

RECURSIVE ParseMembers(_, _, _)
ParseMembers(t, i, acc) ==
    LET k == ScanString(t, i + 1)
        v == ParseValue(t, k.next + 2)
        d == Append(acc, <<k.val, v.val>>)
    IN IF Ch(t, i) # "\"" \/ ~k.ok THEN [ok |-> FALSE, val |-> <<>>]
       ELSE IF Sub(t, k.next, k.next + 1) # ": " \/ ~v.ok
       THEN [ok |-> FALSE, val |-> <<>>]
       ELSE IF Ch(t, v.next) = "}" /\ v.next = Len(t)
       THEN [ok |-> TRUE, val |-> d]
       ELSE IF Sub(t, v.next, v.next + 1) = ", "
       THEN ParseMembers(t, v.next + 2, d)
       ELSE [ok |-> FALSE, val |-> <<>>]

json_loads(t) ==
    IF Ch(t, 1) = "{" THEN ParseMembers(t, 2, <<>>)
    ELSE [ok |-> FALSE, val |-> <<>>]

Keys(d) == {d[i][1] : i \in 1..Len(d)}

Value(d, key) == d[CHOOSE i \in 1..Len(d) : d[i][1] = key][2]

(* The mapping becomes an error when the four required fields are there    *)
(* with their types; the reference may be a string, None or missing.       *)
Validate(d) ==
    IF /\ {"type", "title", "status", "detail"} \subseteq Keys(d)
       /\ \A key \in {"type", "title", "detail"} : Value(d, key).t = "str"
       /\ Value(d, "status").t = "int"
       /\ "mandate_reference" \in Keys(d) =>
              Value(d, "mandate_reference").t \in {"str", "null"}
    THEN Some([ type |-> Value(d, "type").s,
                title |-> Value(d, "title").s,
                status |-> Value(d, "status").n,
                detail |-> Value(d, "detail").s,
                mandate_reference |->
                    IF "mandate_reference" \in Keys(d)
                       /\ Value(d, "mandate_reference").t = "str"
                    THEN Some(Value(d, "mandate_reference").s)
                    ELSE None ])
    ELSE None

Decode(text) ==
    LET parsed == json_loads(text)
    IN IF parsed.ok THEN Validate(parsed.val) ELSE None

BuildOps == {"create_error"} \cup HelperNames

(* A rendering that takes the reference out of the error it renders. *)
Serialize_Consuming ==
    /\ last.op \in BuildOps
    /\ LET err == [last.result.error[1] EXCEPT !.mandate_reference = None]
           text == Encode(err)
       IN last' = Frame("done", "serialize", 0, "none", err,
                        [outcome |-> "ok", error |-> None,
                         value |-> [mapping |-> model_dump(err), json |-> text,
                                    decoded |-> Decode(text)]])
    /\ UNCHANGED <<clock, mandates, callers, revoked, harness>>

(* The error built last is encoded and the text is decoded again. *)
Serialize ==
    /\ last.op \in BuildOps
    /\ LET err == last.result.error[1]
           text == Encode(err)
       IN last' = Frame("done", "serialize", 0, "none", err,
                        [outcome |-> "ok", error |-> None,
                         value |-> [mapping |-> model_dump(err), json |-> text,
                                    decoded |-> Decode(text)]])
    /\ UNCHANGED <<clock, mandates, callers, revoked, harness>>

NextErrors ==
    \/ Serialize
    \/ \E kind \in ErrorKinds, title \in Titles, status \in Statuses,
          detail \in Details, ref \in References :
            CreateError(kind, title, status, detail, ref)
    \/ \E name \in HelperNames, arg \in HelperArgs : Helper(name, arg)

SpecErrors == Init /\ [][NextErrors]_vars

---------------------------------------------------------------------------
(* The test runners and the agent processes.  AgentIntegrationTest and     *)
(* FullSystemTest share start_agent, the loop of start_all_agents and      *)
(* cleanup; they differ in how a failed start is reported and in what      *)
(* run_all_tests and run_test do around them.                              *)

(* start_agent, first half: subprocess.Popen(cmd, ...), then time.sleep(2) *)
StartAgent(a) ==
    /\ harness.pc = "start"
    /\ harness.i = a
    /\ harness' = [harness EXCEPT !.pc = "sleep",
                                  !.proc[a].state = "running",
                                  !.started = Append(@, AgentOrder[a])]
    /\ UNCHANGED <<clock, mandates, last, callers, revoked>>

(* A running process exits, on its own or because of a signal. *)
Exit(a) ==
    /\ harness.proc[a].state = "running"
    /\ harness' = [harness EXCEPT !.proc[a].state = "exited"]
    /\ UNCHANGED <<clock, mandates, last, callers, revoked>>

(* start_agent, second half, process.poll() is None: the process is        *)
(* returned and start_all_agents appends it to self.processes.             *)
AgentRunning ==
    /\ harness.pc = "sleep"
    /\ harness.proc[harness.i].state = "running"
    /\ harness' = [harness EXCEPT !.processes = Append(@, harness.i),
                                  !.i = @ + 1,
                                  !.pc = IF harness.i = Len(AgentOrder)
                                         THEN "started_all" ELSE "start"]
    /\ UNCHANGED <<clock, mandates, last, callers, revoked>>

(* A failed start after which the loop goes on to the next agent. *)
AgentFailed_Continues ==
    /\ harness.pc = "sleep"
    /\ harness.proc[harness.i].state = "exited"
    /\ harness' = [harness EXCEPT !.failed = harness.i,
                                  !.i = @ + 1,
                                  !.pc = IF harness.i = Len(AgentOrder)
                                         THEN "started_all" ELSE "start"]
    /\ UNCHANGED <<clock, mandates, last, callers, revoked>>

(* start_agent, second half, the process has exited: RuntimeError in       *)
(* AgentIntegrationTest, None in FullSystemTest; start_all_agents appends  *)
(* nothing and calls self.cleanup().                                       *)
AgentFailed ==
    /\ harness.pc = "sleep"
    /\ harness.proc[harness.i].state = "exited"
    /\ harness' = [harness EXCEPT !.failed = harness.i,
                                  !.pc = "cleanup", !.k = 1,
                                  !.ret = "start_all_agents"]
    /\ UNCHANGED <<clock, mandates, last, callers, revoked>>

(* cleanup, one turn of the loop: if process.poll() is None:               *)
(* process.terminate()                                                     *)
CleanupPoll ==
    /\ harness.pc = "cleanup"
    /\ harness.k <= Len(harness.processes)
    /\ LET a == harness.processes[harness.k]
       IN harness' =
            IF harness.proc[a].state = "running"
            THEN [harness EXCEPT !.proc[a].terms = @ + 1, !.pc = "wait"]
            ELSE [harness EXCEPT !.k = @ + 1]
    /\ UNCHANGED <<clock, mandates, last, callers, revoked>>

(* process.wait(timeout=5) returns: the process has exited. *)
CleanupWaited ==
    /\ harness.pc = "wait"
    /\ harness.proc[harness.processes[harness.k]].state = "exited"
    /\ harness' = [harness EXCEPT !.k = @ + 1, !.pc = "cleanup"]
    /\ UNCHANGED <<clock, mandates, last, callers, revoked>>

(* process.wait(timeout=5) raises TimeoutExpired: process.kill() *)
CleanupKill ==
    /\ harness.pc = "wait"
    /\ LET a == harness.processes[harness.k]
       IN /\ harness.proc[a].state = "running"
          /\ harness' = [harness EXCEPT !.proc[a].kills = @ + 1,
                                        !.k = @ + 1, !.pc = "cleanup"]
    /\ UNCHANGED <<clock, mandates, last, callers, revoked>>

CleanupOver(cls, ret) ==
    /\ harness.cls = cls
    /\ harness.pc = "cleanup"
    /\ harness.ret = ret
    /\ harness.k > Len(harness.processes)

(* AgentIntegrationTest *)

(* run_all_tests is called: self.start_all_agents() *)
RunAllTests ==
    /\ harness.pc = "new"
    /\ harness' = [harness EXCEPT !.cls = "AgentIntegrationTest", !.pc = "start"]
    /\ UNCHANGED <<clock, mandates, last, callers, revoked>>

(* start_all_agents: cleanup is over and the exception is raised again;    *)
(* run_all_tests catches it, is to return False, and its finally clause    *)
(* calls self.cleanup().                                                   *)
StartAllAgentsRaised ==
    /\ CleanupOver("AgentIntegrationTest", "start_all_agents")
    /\ harness' = [harness EXCEPT !.cleanups = @ + 1, !.result = "false",
                                  !.pc = "cleanup", !.k = 1, !.ret = "finally"]
    /\ UNCHANGED <<clock, mandates, last, callers, revoked>>

(* All agents started: time.sleep(5), then the loop over the tests. *)
WaitInitialize ==
    /\ harness.cls = "AgentIntegrationTest"
    /\ harness.pc = "started_all"
    /\ harness' = [harness EXCEPT !.pc = "tests"]
    /\ UNCHANGED <<clock, mandates, last, callers, revoked>>

(* A loop over the tests that a failed test ends. *)
RunOneTest_StopsAtFailure(outcome) ==
    /\ harness.pc = "tests"
    /\ harness.t <= Len(Tests)
    /\ harness' = [harness EXCEPT !.outcomes = Append(@, <<Tests[harness.t], outcome>>),
                                  !.passed = IF outcome = "true" THEN @ + 1 ELSE @,
                                  !.t = IF outcome = "true" THEN @ + 1 ELSE Len(Tests) + 1]
    /\ UNCHANGED <<clock, mandates, last, callers, revoked>>

(* One turn of the loop over the tests: test_func() returns True or False  *)
(* or raises; only a True is counted.                                      *)
RunOneTest(outcome) ==
    /\ harness.pc = "tests"
    /\ harness.t <= Len(Tests)
    /\ harness' = [harness EXCEPT !.outcomes = Append(@, <<Tests[harness.t], outcome>>),
                                  !.passed = IF outcome = "true" THEN @ + 1 ELSE @,
                                  !.t = @ + 1]
    /\ UNCHANGED <<clock, mandates, last, callers, revoked>>

(* A return after the loop that no finally clause follows. *)
TestsOver_NoFinally ==
    /\ harness.pc = "tests"
    /\ harness.t > Len(Tests)
    /\ harness' = [harness EXCEPT
                      !.result = IF harness.passed = Len(Tests) THEN "true" ELSE "false",
                      !.pc = "returned"]
    /\ UNCHANGED <<clock, mandates, last, callers, revoked>>

(* After the loop: return passed == total, through the finally clause,     *)
(* which calls self.cleanup().                                             *)
TestsOver ==
    /\ harness.pc = "tests"
    /\ harness.t > Len(Tests)
    /\ harness' = [harness EXCEPT
                      !.result = IF harness.passed = Len(Tests) THEN "true" ELSE "false",
                      !.pc = "cleanup", !.k = 1, !.ret = "finally"]
    /\ UNCHANGED <<clock, mandates, last, callers, revoked>>

(* The cleanup of the finally clause is over: run_all_tests returns. *)
RunAllTestsReturns ==
    /\ CleanupOver("AgentIntegrationTest", "finally")
    /\ harness' = [harness EXCEPT !.cleanups = @ + 1, !.pc = "returned"]
    /\ UNCHANGED <<clock, mandates, last, callers, revoked>>

NextIntegration ==
    \/ RunAllTests
    \/ \E a \in Agents : StartAgent(a)
    \/ \E a \in Agents : Exit(a)
    \/ AgentRunning
    \/ AgentFailed
    \/ CleanupPoll
    \/ CleanupWaited
    \/ CleanupKill
    \/ StartAllAgentsRaised
    \/ WaitInitialize
    \/ \E outcome \in {"true", "false", "raises"} : RunOneTest(outcome)
    \/ TestsOver
    \/ RunAllTestsReturns

SpecIntegration == Init /\ [][NextIntegration]_vars

(* A health check that any answer other than 200 fails. *)
HealthRequest_Strict(answer) ==
    /\ harness.health.result = "none"
    /\ harness.health.j <= Len(AgentUrls)
    /\ harness' = [harness EXCEPT
                      !.health.answers = Append(@, <<AgentUrls[harness.health.j], answer>>),
                      !.health.j = @ + 1,
                      !.health.result = IF answer.raised # "none" \/ answer.status # 200
                                        THEN "false" ELSE @]
    /\ UNCHANGED <<clock, mandates, last, callers, revoked>>

(* test_agent_health, one turn of its loop: the request to the next agent  *)
(* is answered, with 200 or with another status, and the loop goes on; or  *)
(* it raises, and the test returns False.                                  *)
HealthRequest(answer) ==
    /\ harness.health.result = "none"
    /\ harness.health.j <= Len(AgentUrls)
    /\ harness' = [harness EXCEPT
                      !.health.answers = Append(@, <<AgentUrls[harness.health.j], answer>>),
                      !.health.j = @ + 1,
                      !.health.result = IF answer.raised # "none" THEN "false" ELSE @]
    /\ UNCHANGED <<clock, mandates, last, callers, revoked>>

(* After the loop: return True *)
HealthReturnsTrue ==
    /\ harness.health.result = "none"
    /\ harness.health.j > Len(AgentUrls)
    /\ harness' = [harness EXCEPT !.health.result = "true"]
    /\ UNCHANGED <<clock, mandates, last, callers, revoked>>

NextHealth ==
    \/ \E answer \in HealthAnswers : HealthRequest(answer)
    \/ HealthReturnsTrue

SpecHealth == Init /\ [][NextHealth]_vars

(* FullSystemTest *)

(* run_test is called: self.start_all_agents() *)
RunTest ==
    /\ harness.pc = "new"
    /\ harness' = [harness EXCEPT !.cls = "FullSystemTest", !.pc = "start"]
    /\ UNCHANGED <<clock, mandates, last, callers, revoked>>

(* start_all_agents: cleanup is over and False is returned; run_test is to *)
(* return False and enters its finally clause.                             *)
StartAllAgentsFalse ==
    /\ CleanupOver("FullSystemTest", "start_all_agents")
    /\ harness' = [harness EXCEPT !.cleanups = @ + 1, !.result = "false",
                                  !.pc = "waiting"]
    /\ UNCHANGED <<clock, mandates, last, callers, revoked>>

(* test_agent_connectivity: time.sleep(5), then every process of           *)
(* self.processes is polled; the test passes when all of them run.         *)
TestAgentConnectivity ==
    /\ harness.cls = "FullSystemTest"
    /\ harness.pc = "started_all"
    /\ harness' =
          IF \A k \in 1..Len(harness.processes) :
                harness.proc[harness.processes[k]].state = "running"
          THEN [harness EXCEPT !.outcomes = Append(@, <<"connectivity", "true">>),
                               !.pc = "mandate_test"]
          ELSE [harness EXCEPT !.outcomes = Append(@, <<"connectivity", "false">>),
                               !.result = "false", !.pc = "waiting"]
    /\ UNCHANGED <<clock, mandates, last, callers, revoked>>

(* test_mandate_functionality returns True, or False when one of its       *)
(* statements raises; run_test is to return that.                          *)
TestMandateFunctionality(outcome) ==
    /\ harness.pc = "mandate_test"
    /\ harness' = [harness EXCEPT !.outcomes = Append(@, <<"mandate", outcome>>),
                                  !.result = outcome, !.pc = "waiting"]
    /\ UNCHANGED <<clock, mandates, last, callers, revoked>>

(* The finally clause of run_test: while True: time.sleep(1), until the    *)
(* KeyboardInterrupt, on which self.cleanup() is called.                   *)
KeyboardInterrupt ==
    /\ harness.pc = "waiting"
    /\ harness' = [harness EXCEPT !.pc = "cleanup", !.k = 1, !.ret = "interrupt"]
    /\ UNCHANGED <<clock, mandates, last, callers, revoked>>

(* The cleanup after the interrupt is over: run_test returns. *)
RunTestReturns ==
    /\ CleanupOver("FullSystemTest", "interrupt")
    /\ harness' = [harness EXCEPT !.cleanups = @ + 1, !.pc = "returned"]
    /\ UNCHANGED <<clock, mandates, last, callers, revoked>>

NextFullSystem ==
    \/ RunTest
    \/ \E a \in Agents : StartAgent(a)
    \/ \E a \in Agents : Exit(a)
    \/ AgentRunning
    \/ AgentFailed
    \/ CleanupPoll
    \/ CleanupWaited
    \/ CleanupKill
    \/ StartAllAgentsFalse
    \/ TestAgentConnectivity
    \/ \E outcome \in {"true", "false"} : TestMandateFunctionality(outcome)
    \/ KeyboardInterrupt
    \/ RunTestReturns

SpecFullSystem == Init /\ [][NextFullSystem]_vars

(* Either runner. *)
NextRunners == NextIntegration \/ NextFullSystem

SpecRunners == Init /\ [][NextRunners]_vars

---------------------------------------------------------------------------
(* Properties of the lifecycle.                                            *)

Terminal == {"REVOKED", "EXPIRED", "COMPLETED", "FAILED"}

(* s ends in suffix *)
EndsWith(s, suffix) ==
    /\ Len(suffix) <= Len(s)
    /\ SubSeq(s, Len(s) - Len(suffix) + 1, Len(s)) = suffix

(* The error a failed operation returned. *)
ErrorOf(frame) == frame.result.error[1]
Failed(frame) == frame.result.outcome = "error" /\ Len(frame.result.error) = 1
FailedWith(frame, kind) == Failed(frame) /\ ErrorOf(frame).type = ErrorType(kind)

(* C1: isExecutable answers true exactly when the status it is asked      *)
(* about is ACTIVE: true for ACTIVE and false for DRAFT, REVOKED, EXPIRED, *)
(* COMPLETED and FAILED, in whatever state the mandate is.                 *)
C1_IsExecutableIffActive ==
    last.op = "isExecutable" =>
        /\ last.seen = mandates[last.id].status
        /\ last.seen \in MandateStatus
        /\ last.seen = "ACTIVE" => last.result.outcome = "true"
        /\ last.seen \in {"DRAFT", "REVOKED", "EXPIRED", "COMPLETED", "FAILED"}
              => last.result.outcome = "false"

C1_Witness ==
    /\ last.op = "isExecutable"
    /\ last.seen = "COMPLETED"
    /\ last.result.outcome = "false"

(* C2: create yields, for each of the four variants, a mandate whose       *)
(* status is ACTIVE, and create is never refused: while the run may still  *)
(* create a mandate, create of every variant can be taken.                 *)
C2_CreateIsActive ==
    /\ last.op = "create" =>
          /\ last.id \in Live
          /\ last.result.value = "ACTIVE"
          /\ mandates[last.id].status = "ACTIVE"
    /\ Cardinality(Live) < MaxMandates => \A v \in Variants : ENABLED Create(v)

C2_Witness ==
    /\ last.op = "create"
    /\ last.arg = "PaymentMandate"
    /\ mandates[last.id].status = "ACTIVE"

(* C3: revoke of a mandate whose status is ACTIVE returns success and      *)
(* leaves the mandate REVOKED.                                             *)
C3_RevokeActive ==
    (last.op = "revoke" /\ last.seen = "ACTIVE") =>
        /\ last.result.outcome = "ok"
        /\ mandates[last.id].status = "REVOKED"

C3_Witness ==
    /\ last.op = "revoke"
    /\ last.seen = "ACTIVE"
    /\ last.result.outcome = "ok"
    /\ mandates[last.id].status = "REVOKED"

(* C4: revoke of a mandate that is already REVOKED fails with status 409,  *)
(* a type ending in mandate-already-revoked and the reference of that      *)
(* mandate, and the failed call changes neither status nor updated_at.     *)
C4_FailedRevoke ==
    (last.op = "revoke" /\ last.seen = "REVOKED") =>
        /\ Failed(last)
        /\ ErrorOf(last).status = 409
        /\ EndsWith(ErrorOf(last).type, "mandate-already-revoked")
        /\ ErrorOf(last).mandate_reference = Some(ToString(last.id))
        /\ mandates[last.id].status = "REVOKED"

C4_Unchanged ==
    \A id \in Ids :
        (id \in Live /\ mandates[id].status = "REVOKED" /\ Revoke(id)) =>
            /\ mandates'[id].status = mandates[id].status
            /\ mandates'[id].updated_at = mandates[id].updated_at

C4_RevokeAlreadyRevoked == [] C4_FailedRevoke /\ [][C4_Unchanged]_vars

(* The mandate was revoked at an earlier reading of the clock, so that a   *)
(* refresh of updated_at by the failed call would show.                    *)
C4_Witness ==
    /\ last.op = "revoke"
    /\ last.seen = "REVOKED"
    /\ Failed(last)
    /\ mandates[last.id].updated_at < clock

(* C5: execute of a mandate that is not executable fails with the kind     *)
(* its status selects: MANDATE_ALREADY_REVOKED for REVOKED,                *)
(* MANDATE_EXPIRED for EXPIRED, MANDATE_INVALID_STATUS for DRAFT,          *)
(* COMPLETED and FAILED; execute of an ACTIVE mandate succeeds.            *)
C5_ExecuteErrorByStatus ==
    last.op = "execute" =>
        /\ last.seen = "ACTIVE" => last.result.outcome = "ok"
        /\ last.seen = "REVOKED" => FailedWith(last, "MANDATE_ALREADY_REVOKED")
        /\ last.seen = "EXPIRED" => FailedWith(last, "MANDATE_EXPIRED")
        /\ last.seen \in {"DRAFT", "COMPLETED", "FAILED"}
              => FailedWith(last, "MANDATE_INVALID_STATUS")

C5_Witness ==
    /\ last.op = "execute"
    /\ last.seen = "EXPIRED"
    /\ FailedWith(last, "MANDATE_EXPIRED")

(* C6: once a mandate has been revoked, and while only lifecycle           *)
(* operations are applied to it, every execute fails with status 409 and   *)
(* a type ending in mandate-already-revoked, and every isExecutable        *)
(* answers false.                                                          *)
C6_RevokedStaysRejected ==
    (last.id \in revoked) =>
        /\ last.op = "execute" =>
              /\ Failed(last)
              /\ ErrorOf(last).status = 409
              /\ EndsWith(ErrorOf(last).type, "mandate-already-revoked")
        /\ last.op = "isExecutable" => last.result.outcome = "false"

C6_Witness ==
    /\ last.id \in revoked
    /\ last.op = "execute"
    /\ Failed(last)
    /\ ErrorOf(last).status = 409

(* C7: of the revoke calls that race on one mandate created ACTIVE,        *)
(* exactly one returns success, every other one fails with                 *)
(* MANDATE_ALREADY_REVOKED, and the mandate ends REVOKED, whatever the     *)
(* interleaving and however many callers take part.                        *)
RevokeCalls(id) ==
    {c \in Callers : callers[c].op = "revoke" /\ callers[c].id = id}
Returned(cs) == {c \in cs : callers[c].pc = "done"}

C7_OneRevokeWins ==
    \A id \in Live :
        Returned(RevokeCalls(id)) # {} =>
            /\ Cardinality({c \in Returned(RevokeCalls(id)) :
                               callers[c].result.outcome = "ok"}) = 1
            /\ \A c \in Returned(RevokeCalls(id)) :
                  \/ callers[c].result.outcome = "ok"
                  \/ FailedWith(callers[c], "MANDATE_ALREADY_REVOKED")
            /\ mandates[id].status = "REVOKED"

(* Every caller has called revoke on the same mandate and has returned. *)
C7_Witness ==
    \E id \in Live : Returned(RevokeCalls(id)) = Callers

(* C8: when revoke and execute race on one mandate, at most one call       *)
(* moves it out of ACTIVE; the status a call read is still the mandate's   *)
(* status when the call acts on it; a call succeeds only on a read of      *)
(* ACTIVE, and a call that read REVOKED fails with                         *)
(* MANDATE_ALREADY_REVOKED.                                                *)
C8_NoStaleRead ==
    \A id \in Live :
        /\ Cardinality({c \in RevokeCalls(id) : callers[c].result.outcome = "ok"}) <= 1
        /\ \A c \in Callers :
              callers[c].id = id =>
                  /\ callers[c].pc = "in" => callers[c].seen = mandates[id].status
                  /\ callers[c].result.outcome = "ok" => callers[c].seen = "ACTIVE"
                  /\ (callers[c].pc = "done" /\ callers[c].seen = "REVOKED")
                        => FailedWith(callers[c], "MANDATE_ALREADY_REVOKED")

(* An execute succeeded, a revoke then won, and a later execute was        *)
(* refused.                                                                *)
C8_Witness ==
    \E id \in Live : \E c1, c2, c3 \in Callers :
        /\ callers[c1].id = id /\ callers[c2].id = id /\ callers[c3].id = id
        /\ callers[c1].op = "execute" /\ callers[c1].result.outcome = "ok"
        /\ callers[c2].op = "revoke" /\ callers[c2].result.outcome = "ok"
        /\ callers[c3].op = "execute"
        /\ FailedWith(callers[c3], "MANDATE_ALREADY_REVOKED")

(* C9: revoke, execute and isExecutable leave the status of a mandate      *)
(* that is REVOKED, EXPIRED, COMPLETED or FAILED as it is; no lifecycle    *)
(* operation takes such a mandate back to ACTIVE.                          *)
C9_TerminalStaysTerminal ==
    (last.op \in {"revoke", "execute", "isExecutable"} /\ last.seen \in Terminal) =>
        mandates[last.id].status = last.seen

C9_Witness ==
    /\ last.op = "revoke"
    /\ last.seen = "EXPIRED"
    /\ mandates[last.id].status = "EXPIRED"

(* C10: an assignment to the status field is accepted from every status    *)
(* to every status, and the read that follows it returns the value         *)
(* assigned.                                                               *)
C10_DirectAssignment ==
    /\ \A id \in Live : \A s \in MandateStatus : ENABLED Assign(id, s)
    /\ last.op = "assign" =>
          /\ last.result.value = last.arg
          /\ mandates[last.id].status = last.arg

C10_Witness ==
    /\ last.op = "assign"
    /\ last.seen = "FAILED"
    /\ last.arg = "ACTIVE"
    /\ last.result.value = "ACTIVE"

(* C11: revoke of a mandate whose status is DRAFT, EXPIRED, COMPLETED or   *)
(* FAILED fails with the one kind MANDATE_INVALID_STATUS and changes       *)
(* neither status nor updated_at.                                          *)
C11_FailedRevoke ==
    (last.op = "revoke" /\ last.seen \in {"DRAFT", "EXPIRED", "COMPLETED", "FAILED"}) =>
        /\ FailedWith(last, "MANDATE_INVALID_STATUS")
        /\ EndsWith(ErrorOf(last).type, "mandate-invalid-status")
        /\ mandates[last.id].status = last.seen

C11_Unchanged ==
    \A id \in Ids :
        (/\ id \in Live
         /\ mandates[id].status \in {"DRAFT", "EXPIRED", "COMPLETED", "FAILED"}
         /\ Revoke(id)) =>
            /\ mandates'[id].status = mandates[id].status
            /\ mandates'[id].updated_at = mandates[id].updated_at

C11_RevokeInvalidStatus == [] C11_FailedRevoke /\ [][C11_Unchanged]_vars

(* The refused revoke came at a later reading of the clock than the last   *)
(* refresh, so that a refresh by the failed call would show.               *)
C11_Witness ==
    /\ last.op = "revoke"
    /\ last.seen = "DRAFT"
    /\ FailedWith(last, "MANDATE_INVALID_STATUS")
    /\ mandates[last.id].updated_at < clock

(* C12: lookup of a reference that a stored mandate has returns that       *)
(* mandate; lookup of any other reference fails with status 404, a type    *)
(* ending in mandate-not-found and the reference that was looked up.       *)
C12_Lookup ==
    last.op = "lookup" =>
        LET known == {id \in Live : ToString(id) = last.arg}
        IN  IF known # {}
            THEN /\ last.result.outcome = "ok"
                 /\ \A id \in known : last.result.value = mandates[id]
            ELSE /\ Failed(last)
                 /\ ErrorOf(last).status = 404
                 /\ EndsWith(ErrorOf(last).type, "mandate-not-found")
                 /\ ErrorOf(last).mandate_reference = Some(last.arg)

(* A mandate is stored, and the reference asked for is not its own. *)
C12_Witness ==
    /\ last.op = "lookup"
    /\ Live # {}
    /\ last.arg = "nonexistent-mandate"
    /\ Failed(last)
    /\ ErrorOf(last).status = 404

---------------------------------------------------------------------------
(* Properties of the timestamps.  The clock of the model never goes back.  *)

(* C13: right after create, for whichever variant, created_at equals       *)
(* updated_at.                                                             *)
C13_CreatedEqualsUpdated ==
    last.op = "create" =>
        /\ last.id \in Live
        /\ mandates[last.id].created_at = mandates[last.id].updated_at

(* A mandate created at a reading of the clock other than the first. *)
C13_Witness ==
    /\ last.op = "create"
    /\ last.arg = "CartMandate"
    /\ mandates[last.id].created_at > 0
    /\ mandates[last.id].updated_at = mandates[last.id].created_at

(* C14: in every reachable state, every mandate has                        *)
(* updated_at >= created_at.                                               *)
C14_UpdatedNotBeforeCreated ==
    \A id \in Live : mandates[id].updated_at >= mandates[id].created_at

C14_Witness ==
    \E id \in Live : mandates[id].updated_at > mandates[id].created_at

(* C15: no step lowers the updated_at of a mandate; a successful revoke    *)
(* leaves it at least what it was before the call.                         *)
C15_Step ==
    \A id \in Live : mandates'[id].updated_at >= mandates[id].updated_at

C15_UpdatedNeverDecreases == [][C15_Step]_vars

(* A revoke succeeded and moved updated_at forward. *)
C15_Witness ==
    /\ last.op = "revoke"
    /\ last.result.outcome = "ok"
    /\ mandates[last.id].updated_at > mandates[last.id].created_at

(* C16: every step that changes the status of a mandate sets its           *)
(* updated_at to the current time in the same step.                        *)
C16_Step ==
    \A id \in Live :
        mandates'[id].status # mandates[id].status =>
            mandates'[id].updated_at = clock'

C16_StatusChangeRefreshes == [][C16_Step]_vars

---------------------------------------------------------------------------
(* Properties of the error schema.                                         *)

(* C17: create_error succeeds for every kind of the catalog, and the error *)
(* it returns has the kind's URI as type and title, status, detail and     *)
(* mandate_reference exactly as passed; mandate_reference is absent when   *)
(* none was passed.                                                        *)
C17_CreateError ==
    /\ \A kind \in ErrorKinds, title \in Titles, status \in Statuses,
          detail \in Details, ref \in References :
            ENABLED CreateError(kind, title, status, detail, ref)
    /\ last.op = "create_error" =>
          /\ last.result.outcome = "ok"
          /\ LET err == ErrorOf(last)
                 inp == last.arg
             IN /\ err.type = ErrorType(inp.kind)
                /\ err.title = inp.title
                /\ err.status = inp.status
                /\ err.detail = inp.detail
                /\ err.mandate_reference = inp.mandate_reference

C17_Witness ==
    /\ last.op = "create_error"
    /\ last.arg.kind = "PAYMENT_DECLINED"
    /\ last.arg.mandate_reference = None
    /\ ErrorOf(last).mandate_reference = None
    /\ ErrorOf(last).type = "https://ap2-protocol.org/errors/payment-declined"

(* C18: each helper constructor returns an error of its fixed kind and     *)
(* status: mandate_not_found_error 404, mandate_already_revoked_error 409, *)
(* mandate_expired_error 410, payment_declined_error 402,                  *)
(* unauthorized_agent_error 401, internal_server_error 500.  The three     *)
(* mandate helpers set mandate_reference to their argument; the other      *)
(* three leave it absent.                                                  *)
C18_Table ==
    [ mandate_not_found_error |->
          [kind |-> "MANDATE_NOT_FOUND", status |-> 404, reference |-> TRUE],
      mandate_already_revoked_error |->
          [kind |-> "MANDATE_ALREADY_REVOKED", status |-> 409, reference |-> TRUE],
      mandate_expired_error |->
          [kind |-> "MANDATE_EXPIRED", status |-> 410, reference |-> TRUE],
      payment_declined_error |->
          [kind |-> "PAYMENT_DECLINED", status |-> 402, reference |-> FALSE],
      unauthorized_agent_error |->
          [kind |-> "UNAUTHORIZED_AGENT", status |-> 401, reference |-> FALSE],
      internal_server_error |->
          [kind |-> "INTERNAL_SERVER_ERROR", status |-> 500, reference |-> FALSE] ]

C18_Helpers ==
    /\ HelperNames = DOMAIN C18_Table
    /\ last.op \in HelperNames =>
          LET err == ErrorOf(last)
              row == C18_Table[last.op]
          IN /\ err.type = ErrorType(row.kind)
             /\ err.status = row.status
             /\ err.mandate_reference =
                    IF row.reference THEN Some(last.arg) ELSE None

C18_Witness ==
    /\ last.op = "internal_server_error"
    /\ last.arg = "Test payment error"
    /\ ErrorOf(last).status = 500
    /\ ErrorOf(last).mandate_reference = None

StartsWith(s, prefix) ==
    Len(s) >= Len(prefix) /\ SubSeq(s, 1, Len(prefix)) = prefix

(* C19: the catalog has 19 kinds, the URI of every kind starts with        *)
(* https://ap2-protocol.org/errors/, and so does the type of every error   *)
(* that create_error or a helper builds.                                   *)
C19_UriPrefix ==
    /\ Cardinality(ErrorKinds) = 19
    /\ \A kind \in ErrorKinds :
          StartsWith(ErrorType(kind), "https://ap2-protocol.org/errors/")
    /\ Len(last.result.error) = 1 =>
          StartsWith(ErrorOf(last).type, "https://ap2-protocol.org/errors/")

C19_Witness ==
    /\ last.op = "unauthorized_agent_error"
    /\ StartsWith(ErrorOf(last).type, "https://ap2-protocol.org/errors/")
    /\ Len(ErrorOf(last).type) > Len("https://ap2-protocol.org/errors/")

(* C20: for every kind of the catalog and every choice of title, status,   *)
(* detail and optional mandate_reference, decoding the encoded form of the *)
(* error built by create_error gives an error equal to it field by field.  *)
C20_RoundTrip ==
    last.op = "serialize" =>
        /\ Len(last.result.value.decoded) = 1
        /\ LET back == last.result.value.decoded[1]
               err == last.arg
           IN /\ back.type = err.type
              /\ back.title = err.title
              /\ back.status = err.status
              /\ back.detail = err.detail
              /\ back.mandate_reference = err.mandate_reference

C20_Witness ==
    /\ last.op = "serialize"
    /\ last.arg.detail = "agent \"bad-agent\" sent C:\\cart"
    /\ last.arg.mandate_reference = None
    /\ last.result.value.decoded = Some(last.arg)
    /\ Len(last.result.value.json) > Len(last.arg.type) + Len(last.arg.detail) + 4

(* C21: the mapping an error renders to has exactly the keys type, title,  *)
(* status and detail when the error has no mandate_reference, and exactly  *)
(* those four and mandate_reference when it has one.                       *)
C21_MappingKeys ==
    last.op = "serialize" =>
        Keys(last.result.value.mapping) =
            {"type", "title", "status", "detail"}
            \cup (IF last.arg.mandate_reference = None THEN {}
                  ELSE {"mandate_reference"})

---------------------------------------------------------------------------
(* Properties of the failures and of the frame of the operations.          *)

(* C22: every failing outcome of revoke, execute and lookup is an error    *)
(* value with the five fields of the schema whose type is the URI of a     *)
(* kind of the catalog; these operations end in success or in such an      *)
(* error, never in anything else.                                          *)
C22_StructuredFailure ==
    last.op \in {"revoke", "execute", "lookup"} =>
        /\ last.result.outcome \in {"ok", "error"}
        /\ last.result.outcome = "ok" => last.result.error = None
        /\ last.result.outcome = "error" =>
              /\ Len(last.result.error) = 1
              /\ DOMAIN ErrorOf(last) =
                     {"type", "title", "status", "detail", "mandate_reference"}
              /\ \E kind \in ErrorKinds : ErrorOf(last).type = ErrorType(kind)

C22_Witness ==
    /\ last.op = "execute"
    /\ last.seen = "EXPIRED"
    /\ last.result.outcome = "error"
    /\ ErrorOf(last).type = "https://ap2-protocol.org/errors/mandate-expired"

(* C23: in every reachable state the status of each mandate is one of      *)
(* DRAFT, ACTIVE, REVOKED, EXPIRED, COMPLETED, FAILED, the enumeration has *)
(* these six members and no other, and each member is equal to the string  *)
(* of its own name.                                                        *)
C23_StatusInEnumeration ==
    /\ \A id \in Live :
          mandates[id].status \in
              {"DRAFT", "ACTIVE", "REVOKED", "EXPIRED", "COMPLETED", "FAILED"}
    /\ Cardinality(MandateStatus) = 6
    /\ \A name \in {"DRAFT", "ACTIVE", "REVOKED", "EXPIRED", "COMPLETED", "FAILED"} :
          \E member \in MandateStatus : member = name

C23_Witness ==
    /\ last.op = "assign"
    /\ last.seen = "REVOKED"
    /\ last.id \in Live
    /\ mandates[last.id].status = "COMPLETED"

(* C24: created_at is set once, by create; no later step, whether a        *)
(* revocation, an execution, an isExecutable question or a status change,  *)
(* alters it.                                                              *)
C24_Step ==
    \A id \in Live :
        /\ id \in DOMAIN mandates'
        /\ mandates'[id].created_at = mandates[id].created_at

C24_CreatedAtImmutable == [][C24_Step]_vars

C24_Witness ==
    /\ last.op \in {"script_revoke", "revoke"}
    /\ last.id \in Live
    /\ mandates[last.id].status = "REVOKED"
    /\ mandates[last.id].created_at < mandates[last.id].updated_at

(* C25: isExecutable never fails, whatever the status of the mandate: it   *)
(* can be asked of every live mandate, it answers true or false with no    *)
(* error, and it leaves status, created_at and updated_at as they were.    *)
C25_AlwaysAnswers ==
    /\ \A id \in Live : ENABLED CheckExecutable(id)
    /\ last.op = "isExecutable" =>
          /\ last.result.outcome \in {"true", "false"}
          /\ last.result.error = None

C25_Step ==
    (last'.op = "isExecutable" /\ last' # last) =>
        /\ DOMAIN mandates' = DOMAIN mandates
        /\ \A id \in Live :
              /\ mandates'[id].status = mandates[id].status
              /\ mandates'[id].created_at = mandates[id].created_at
              /\ mandates'[id].updated_at = mandates[id].updated_at

C25_IsExecutablePure == [] C25_AlwaysAnswers /\ [][C25_Step]_vars

C25_Witness ==
    /\ last.op = "isExecutable"
    /\ last.seen = "DRAFT"
    /\ last.result.outcome = "false"
    /\ mandates[last.id].status = "DRAFT"

(* C26: execute leaves the status of the mandate as it was, whether it     *)
(* succeeds or fails: after a successful execute an ACTIVE mandate is      *)
(* still ACTIVE, and a mandate becomes COMPLETED or FAILED only by the     *)
(* caller's own assignment.                                                *)
C26_Step ==
    /\ (last'.op = "execute" /\ last' # last) =>
          \A id \in Live : mandates'[id].status = mandates[id].status
    /\ \A id \in Live :
          (mandates'[id].status \in {"COMPLETED", "FAILED"}
           /\ mandates'[id].status # mandates[id].status) =>
              last'.op = "assign" /\ last'.id = id

C26_ExecuteKeepsStatus == [][C26_Step]_vars

C26_Witness ==
    /\ last.op = "execute"
    /\ last.result.outcome = "ok"
    /\ mandates[last.id].status = "ACTIVE"

(* C27: at every instant no two live mandates have the same reference; a   *)
(* mandate keeps its identity, and with it its reference, in every state   *)
(* from its creation onward, so that two failures on one mandate carry one *)
(* reference; and the reference carried by the error of a failed revoke or *)
(* execute is the reference of the mandate the operation was applied to,   *)
(* that of a failed lookup the reference that was looked up.               *)
C27_Unique ==
    /\ \A i \in Live, j \in Live : i # j => MandateRef(i) # MandateRef(j)
    /\ \A ref \in {MandateRef(id) : id \in Live} : Cardinality(Stored(ref)) = 1
    /\ (last.op \in {"revoke", "execute"} /\ Failed(last)) =>
          ErrorOf(last).mandate_reference = Some(MandateRef(last.id))
    /\ (last.op = "lookup" /\ Failed(last)) =>
          ErrorOf(last).mandate_reference = Some(last.arg)

C27_Step ==
    /\ \A id \in Live : id \in DOMAIN mandates'
    /\ (/\ last.op \in {"revoke", "execute"} /\ Failed(last)
        /\ last'.op \in {"revoke", "execute"} /\ Failed(last')
        /\ last'.id = last.id) =>
            ErrorOf(last').mandate_reference = ErrorOf(last).mandate_reference

C27_References == [] C27_Unique /\ [][C27_Step]_vars

C27_Witness ==
    /\ Cardinality(Live) = 2
    /\ last.op = "execute"
    /\ last.id = 2
    /\ Failed(last)
    /\ ErrorOf(last).mandate_reference = Some("2")
    /\ mandates[1].status = "REVOKED"

(* C28: an error value is immutable: once create_error or a helper has     *)
(* returned it, the operation that follows, its rendering and encoding,    *)
(* finds and leaves its type, title, status, detail and mandate_reference  *)
(* as they were returned.                                                  *)
C28_Step ==
    (last.op \in BuildOps /\ last'.op = "serialize") =>
        LET built == ErrorOf(last)
            kept == last'.arg
        IN /\ kept.type = built.type
           /\ kept.title = built.title
           /\ kept.status = built.status
           /\ kept.detail = built.detail
           /\ kept.mandate_reference = built.mandate_reference

---------------------------------------------------------------------------
(* Properties of the test runners.                                         *)

Signals(p) == p.terms + p.kills

(* C29: run_all_tests calls cleanup on every exit path, after the tests    *)
(* (whether they pass, fail or raise) and after a failed agent start: when *)
(* it has returned, cleanup has run, and every process of self.processes   *)
(* has exited or was sent terminate and, not having exited within the      *)
(* timeout, was killed; a process is killed only after it was sent         *)
(* terminate; and no cleanup, the second one included, signals a process   *)
(* that has already exited.                                                *)
C29_Returned ==
    /\ harness.pc = "returned" =>
          /\ harness.cleanups >= 1
          /\ harness.failed # 0 => harness.cleanups = 2
          /\ \A k \in 1..Len(harness.processes) :
                LET p == harness.proc[harness.processes[k]]
                IN p.state = "running" => p.terms >= 1 /\ p.kills >= 1
    /\ \A a \in Agents : harness.proc[a].kills <= harness.proc[a].terms

C29_Step ==
    \A a \in Agents :
        Signals(harness'.proc[a]) > Signals(harness.proc[a]) =>
            harness.proc[a].state = "running"

C29_CleanupOnEveryPath == [] C29_Returned /\ [][C29_Step]_vars

C29_Witness ==
    /\ harness.cls = "AgentIntegrationTest"
    /\ harness.pc = "returned"
    /\ harness.failed = 3
    /\ harness.cleanups = 2
    /\ harness.proc[1].state = "running"
    /\ harness.proc[1].terms = 2
    /\ harness.proc[2].state = "exited"
    /\ harness.proc[2].terms = 1
    /\ harness.proc[2].kills = 0

StoppedByCleanup(p) == p.state = "exited" \/ (p.terms >= 1 /\ p.kills >= 1)

(* C30: start_all_agents starts the agents in the order                    *)
(* credentials_provider_agent, merchant_payment_processor_agent,           *)
(* merchant_agent, shopping_agent, each one only after the one before it   *)
(* was seen running and put on the process list; when an agent fails to    *)
(* start, no later agent is started, the failed process is not on the      *)
(* list, and once the cleanup that follows is over every agent started     *)
(* before it has been stopped.                                             *)
C30_StartInOrder ==
    /\ \A n \in 1..Len(harness.started) :
          /\ harness.started[n] =
                << "credentials_provider_agent", "merchant_payment_processor_agent",
                   "merchant_agent", "shopping_agent" >>[n]
          /\ harness.proc[n].state # "none"
          /\ n > 1 => /\ Len(harness.processes) >= n - 1
                      /\ harness.processes[n - 1] = n - 1
    /\ \A a \in Agents :
          harness.proc[a].state # "none" => a <= Len(harness.started)
    /\ harness.failed # 0 =>
          /\ Len(harness.started) = harness.failed
          /\ \A a \in Agents : a > harness.failed => harness.proc[a].state = "none"
          /\ \A k \in 1..Len(harness.processes) :
                harness.processes[k] # harness.failed
          /\ harness.cleanups >= 1 =>
                \A a \in Agents :
                    a < harness.failed => StoppedByCleanup(harness.proc[a])

C30_Witness ==
    /\ harness.cls = "FullSystemTest"
    /\ harness.failed = 3
    /\ harness.cleanups = 1
    /\ harness.pc = "waiting"
    /\ harness.processes = <<1, 2>>
    /\ harness.proc[1].kills = 1
    /\ harness.proc[2].state = "exited"
    /\ harness.proc[4].state = "none"

(* C31: run_test does not return, on any path, a failed agent start or a   *)
(* failed test included, before a keyboard interrupt has arrived; until    *)
(* the interrupt the runner leaves the agents running, sending no signal   *)
(* to any of them; and when run_test has returned, the cleanup started by  *)
(* the interrupt has stopped every agent.                                  *)
C31_Returned ==
    harness.pc = "returned" =>
        /\ harness.ret = "interrupt"
        /\ harness.result \in {"true", "false"}
        /\ \A a \in Agents :
              harness.proc[a].state # "none" =>
                  StoppedByCleanup(harness.proc[a])

C31_Step ==
    \A a \in Agents :
        Signals(harness'.proc[a]) > Signals(harness.proc[a]) =>
            harness.ret = "interrupt"

C31_RunsUntilInterrupt == [] C31_Returned /\ [][C31_Step]_vars

(* C32: run_all_tests runs the three tests, health check, mandate creation *)
(* and revocation, error handling, in that order, and goes on to the next  *)
(* one when a test returns false or raises; a test that raises counts as   *)
(* failed; and run_all_tests returns true exactly when all three tests     *)
(* returned true.                                                          *)
C32_Passed ==
    Cardinality({n \in 1..Len(harness.outcomes) : harness.outcomes[n][2] = "true"})

C32_AllTestsRun ==
    /\ \A n \in 1..Len(harness.outcomes) :
          harness.outcomes[n][1] =
              << "Agent Health Check", "Mandate Creation & Revocation",
                 "Error Handling" >>[n]
    /\ harness.passed = C32_Passed
    /\ (harness.pc = "returned" /\ harness.failed = 0) =>
          /\ Len(harness.outcomes) = 3
          /\ harness.result = "true" <=>
                \A n \in 1..3 : harness.outcomes[n][2] = "true"
          /\ harness.result \in {"true", "false"}

C32_Witness ==
    /\ harness.cls = "AgentIntegrationTest"
    /\ harness.pc = "returned"
    /\ harness.outcomes = << <<"Agent Health Check", "false">>,
                             <<"Mandate Creation & Revocation", "raises">>,
                             <<"Error Handling", "true">> >>
    /\ harness.passed = 1
    /\ harness.result = "false"

(* C33: test_agent_health asks the four agents in the order Shopping       *)
(* Agent, Merchant Agent, Credentials Provider, Payment Processor; it      *)
(* returns false at the first agent whose request raises, and asks no      *)
(* later agent; it returns true only when all four agents answered; an     *)
(* answer with a status other than 200 does not make the result false.     *)
C33_Answers == harness.health.answers

C33_Health ==
    /\ \A n \in 1..Len(C33_Answers) :
          /\ C33_Answers[n][1] =
                << "Shopping Agent", "Merchant Agent", "Credentials Provider",
                   "Payment Processor" >>[n]
          /\ n < Len(C33_Answers) => C33_Answers[n][2].raised = "none"
    /\ harness.health.result = "false" <=>
          /\ Len(C33_Answers) >= 1
          /\ C33_Answers[Len(C33_Answers)][2].raised # "none"
    /\ harness.health.result = "true" =>
          /\ Len(C33_Answers) = 4
          /\ \A n \in 1..4 : C33_Answers[n][2].raised = "none"
    /\ harness.health.result = "none" => Len(C33_Answers) <= 4

C33_Step ==
    harness.health.result # "none" => harness'.health = harness.health

C33_HealthCheck == [] C33_Health /\ [][C33_Step]_vars

C33_Witness ==
    /\ harness.health.result = "true"
    /\ C33_Answers[1][2] = Responded(200)
    /\ C33_Answers[2][2].status = 500
    /\ C33_Answers[4][2].status = 404

====
